---- MODULE Spec2Model ----
(***************************************************************************)
(* Model of DecisionTree.py: the tree builder (CreateTree and the          *)
(* recursion CreateTreeRecursive with GetPossibleValues, GetQuestions,     *)
(* GetChildPossibleValues, CanSplit, FindBestSplit, GiniIndex, Counts),    *)
(* the traversal (Question.Match, DecisionNode.Decide, LeafNode.Decide)    *)
(* and the evaluation loop of DecisionTree.Decide.                         *)
(*                                                                         *)
(* Values.  A cell of a row is a float or a string (LoadTrainingData turns *)
(* every parseable word into a float).  A float is [num |-> n], a string   *)
(* is [str |-> s], Python's None is [none |-> TRUE], a Python list is      *)
(* [list |-> <<...>>] and a Python set is [set |-> {...}].  Indexes are    *)
(* 0-based as in the code; At reads a sequence the way Python indexes a    *)
(* list, negative indexes included.                                        *)
(***************************************************************************)
EXTENDS Integers, Sequences, FiniteSets, TLC

VARIABLES
    TrainingData,        \* self.TrainingData: the list of rows
    AttributeNames,      \* self.AttributeNames
    GlobalUniqueValues,  \* self.GlobalUniqueValues
    GlobalQuestions,     \* self.GlobalQuestions
    Root,                \* the nodes built so far, by path of 0-based branch indexes
    Depth,               \* self.Depth
    stack,               \* pending CreateTreeRecursive calls, innermost first
    call,                \* the locals of the last CreateTreeRecursive call
    decided,             \* the last Root.Decide(row): the row, the route, the counts
    pc,                  \* position of the program
    total, TP, TN, FP, FN, P, N,   \* counters of DecisionTree.Decide
    testData,                      \* the rows of the test file read so far
    row, counts,                   \* locals of the last evaluated row
    accuracy, precision, recall    \* the metrics of DecisionTree.Decide

buildVars == <<TrainingData, AttributeNames, GlobalUniqueValues, GlobalQuestions,
               Root, Depth, stack, call>>
evalVars == <<total, TP, TN, FP, FN, P, N, testData, row, counts, accuracy, precision, recall>>
vars == <<TrainingData, AttributeNames, GlobalUniqueValues, GlobalQuestions,
          Root, Depth, stack, call, decided, pc,
          total, TP, TN, FP, FN, P, N, testData, row, counts, accuracy, precision, recall>>

----------------------------------------------------------------------------
(* Bounds of the model *)

\* longest training set of the family with a colour and a size column
MaxRows == 3
\* longest training set of the family with one numeric column
MaxNumRows == 4
\* longest evaluated test file
MaxTest == 3
\* largest value of the family with one numeric column of many values
MaxValue == 7

----------------------------------------------------------------------------
(* Values *)

Num(n) == [num |-> n]
Str(s) == [str |-> s]
None == [none |-> TRUE]
List(q) == [list |-> q]
SetOf(S) == [set |-> S]

\* float(value) succeeds on a float and raises on a string that was not
\* parseable, on a list and on a set
IsFloat(value) == "num" \in DOMAIN value

\* seq[i] of Python: 0-based, a negative index counts from the end
At(seq, i) == IF i < 0 THEN seq[Len(seq) + i + 1] ELSE seq[i + 1]

MinOf(S) == CHOOSE x \in S : \A y \in S : x <= y

RECURSIVE SortedSeq(_)
\* list(set(xs)) followed by sort(), on a set of integers
SortedSeq(S) == IF S = {} THEN <<>>
                ELSE <<MinOf(S)>> \o SortedSeq(S \ {MinOf(S)})

RECURSIVE SetToSeq(_)
\* one iteration order of a set
SetToSeq(S) == IF S = {} THEN <<>>
               ELSE LET x == CHOOSE y \in S : TRUE IN <<x>> \o SetToSeq(S \ {x})

\* every iteration order of a set
Orders(S) == {s \in [1..Cardinality(S) -> S] : \A i, j \in DOMAIN s : s[i] = s[j] => i = j}

\* len(container)
PyLen(container) == IF "list" \in DOMAIN container THEN Len(container.list)
                    ELSE Cardinality(container.set)

\* the elements of a container in the order "for x in container" visits them.
\* A list is visited in its order.  The order of a set is not fixed; where the
\* order cannot be observed (a scan for the one equal element, a sum) the
\* model takes one order
Iter(container) == IF "list" \in DOMAIN container THEN container.list
                   ELSE SetToSeq(container.set)

\* the orders in which "for x in container" may visit the container
IterOrders(container) == IF "list" \in DOMAIN container THEN {container.list}
                         ELSE Orders(container.set)

----------------------------------------------------------------------------
(* Question *)

Question(aAttributeIndex, aValue) == [Attribute |-> aAttributeIndex, Value |-> aValue]

\* Question.Match: the kind of comparison follows the row's value
Match(question, aRow) ==
    LET val == At(aRow, question.Attribute)
    IN IF IsFloat(val) THEN val.num <= question.Value.num
       ELSE val = question.Value

\* the loop "for i, question in enumerate(questions): if question.Match(row): ... break":
\* the 0-based index of the first question that matches, -1 when none does
FirstMatch(questions, aRow) ==
    LET hits == {i \in 1..Len(questions) : Match(questions[i], aRow)}
    IN IF hits = {} THEN -1 ELSE MinOf(hits) - 1

----------------------------------------------------------------------------
(* Candidate values and questions *)

\* the values of column j of a data set
Column(aDataSet, j) == {At(aDataSet[r], j) : r \in DOMAIN aDataSet}

\* significant bits of a Python float
MantissaBits == 53

\* a positive float: the bits of its significand, the most significant first,
\* and the power of two the first bit stands for
Double(significand, exponent) == [bits |-> significand, exp |-> exponent]

RECURSIVE Pow2(_)
Pow2(n) == IF n = 0 THEN 1
           ELSE LET half == Pow2(n \div 2)
                IN IF n % 2 = 0 THEN half * half ELSE 2 * half * half

RECURSIVE Pow2Mod(_, _)
\* 2^n modulo m
Pow2Mod(n, m) == IF n = 0 THEN 1 % m
                 ELSE LET half == Pow2Mod(n \div 2, m)
                      IN IF n % 2 = 0 THEN (half * half) % m ELSE (2 * half * half) % m

\* the number of binary digits of a natural number below 2^30
BitLength(n) == CHOOSE w \in 0..30 : n < Pow2(w) /\ (w = 0 \/ Pow2(w - 1) <= n)

\* the last width binary digits of a natural number
LowBits(n, width) == [i \in 1..width |-> (n \div Pow2(width - i)) % 2]

\* the binary digits of a natural number, none for 0
NatBits(n) == LowBits(n, BitLength(n))

RECURSIVE BitsToNat(_)
\* the natural number of at most 30 binary digits
BitsToNat(bits) ==
    IF bits = <<>> THEN 0
    ELSE IF Len(bits) = 1 THEN bits[1]
    ELSE LET mid == Len(bits) \div 2
         IN BitsToNat(SubSeq(bits, 1, mid)) * Pow2(Len(bits) - mid)
            + BitsToNat(SubSeq(bits, mid + 1, Len(bits)))

\* one more in the last place; a carry out of the first place adds a digit
Incremented(bits) ==
    LET zeros == {i \in DOMAIN bits : bits[i] = 0}
    IN IF zeros = {} THEN <<1>> \o [i \in DOMAIN bits |-> 0]
       ELSE LET last == CHOOSE i \in zeros : \A j \in zeros : j <= i
            IN [i \in DOMAIN bits |-> IF i < last THEN bits[i]
                                      ELSE IF i = last THEN 1 ELSE 0]

\* the float nearest to an exact result, a tie going to the even significand.
\* bits are the leading digits of the result, sticky tells that digits other
\* than 0 follow them
RoundNearestEven(bits, exp, sticky) ==
    IF Len(bits) <= MantissaBits
    THEN Double(bits \o [i \in 1..(MantissaBits - Len(bits)) |-> 0], exp)
    ELSE LET kept == SubSeq(bits, 1, MantissaBits)
             guard == bits[MantissaBits + 1]
             rest == sticky \/ \E i \in (MantissaBits + 2)..Len(bits) : bits[i] = 1
             up == guard = 1 /\ (rest \/ kept[MantissaBits] = 1)
             inc == Incremented(kept)
         IN IF ~up THEN Double(kept, exp)
            ELSE IF Len(inc) > MantissaBits
                 THEN Double(SubSeq(inc, 1, MantissaBits), exp + 1)
                 ELSE Double(inc, exp)

RECURSIVE Exponent(_, _)
\* the exp with b * 2^exp <= a < b * 2^(exp + 1)
Exponent(a, b) == IF a >= 2 * b THEN Exponent(a, 2 * b) + 1
                  ELSE IF a < b THEN Exponent(2 * a, b) - 1
                  ELSE 0

\* digit i of num / den in binary, for den <= num < 2 * den: digit 1 is the
\* unit, digit i > 1 follows from what is left of num * 2^(i - 2) over den
QuotientBit(num, den, i) ==
    IF i = 1 THEN 1
    ELSE IF 2 * ((num * Pow2Mod(i - 2, den)) % den) >= den THEN 1 ELSE 0

\* a / b of two positive ints: the quotient rounded to a float
TrueDiv(a, b) ==
    LET e == Exponent(a, b)
        num == a * Pow2(IF e < 0 THEN 0 - e ELSE 0)
        den == b * Pow2(IF e > 0 THEN e ELSE 0)
        bits == [i \in 1..(MantissaBits + 1) |-> QuotientBit(num, den, i)]
    IN RoundNearestEven(bits, e, (num * Pow2Mod(MantissaBits, den)) % den # 0)

\* the digits of bits * k, for a significand and a small positive int; the
\* significand is multiplied in two parts, the lower of lowPart digits
TimesBits(bits, k) ==
    LET lowPart == 27
        high == BitsToNat(SubSeq(bits, 1, Len(bits) - lowPart))
        low == BitsToNat(SubSeq(bits, Len(bits) - lowPart + 1, Len(bits)))
    IN NatBits(k * high + (k * low) \div Pow2(lowPart))
       \o LowBits((k * low) % Pow2(lowPart), lowPart)

\* x * k of a float and a small positive int: the product rounded to a float
FloatMul(x, k) ==
    LET product == TimesBits(x.bits, k)
    IN RoundNearestEven(product, x.exp + Len(product) - MantissaBits, FALSE)

\* int(x): the digits before the point
Trunc(x) == IF x.exp < 0 THEN 0 ELSE BitsToNat(SubSeq(x.bits, 1, x.exp + 1))

\* the longest training set of the families
LongestFile == CHOOSE n \in {MaxRows, MaxNumRows, MaxValue + 1} :
                   \A m \in {MaxRows, MaxNumRows, MaxValue + 1} : m <= n

\* int(numPosVals / 3 * k): numPosVals / 3 rounded to a float, times k rounded
\* to a float, truncated; for every length a column of the families can have
IntThirds == [numPosVals \in 1..LongestFile |->
                 [k \in 1..3 |-> Trunc(FloatMul(TrueDiv(numPosVals, 3), k))]]

ThirdsIndex(numPosVals, k) == IntThirds[numPosVals][k]

\* the bucketing without the test "len(possibleValues[i]) >= 3"
BucketsAlways(sorted) ==
    LET numPosVals == Len(sorted)
    IN << At(sorted, ThirdsIndex(numPosVals, 1) - 1),
          At(sorted, ThirdsIndex(numPosVals, 2) - 1),
          At(sorted, ThirdsIndex(numPosVals, 3) - 1) >>

\* the bucketing of a sorted list of three or more distinct numbers
Buckets(sorted) ==
    LET numPosVals == Len(sorted)
    IN IF numPosVals >= 3
       THEN << At(sorted, ThirdsIndex(numPosVals, 1) - 1),
               At(sorted, ThirdsIndex(numPosVals, 2) - 1),
               At(sorted, ThirdsIndex(numPosVals, 3) - 1) >>
       ELSE sorted

\* GetPossibleValues: per column, a bucketed sorted list for numbers and the set
\* of the distinct words otherwise.  The container is made for the first value
\* of the column; the columns are type-homogeneous
GetPossibleValues(aTrainingData) ==
    [j1 \in 1..Len(AttributeNames) |->
        LET j == j1 - 1
            col == Column(aTrainingData, j)
        IN IF IsFloat(At(aTrainingData[1], j))
           THEN LET sorted == SortedSeq({v.num : v \in col})
                IN List([i \in DOMAIN Buckets(sorted) |-> Num(Buckets(sorted)[i])])
           ELSE SetOf(col)]

\* GetQuestions: one Question per candidate value of every column
GetQuestions(aGlobalUniqueValues) ==
    [i1 \in DOMAIN aGlobalUniqueValues |->
        LET values == Iter(aGlobalUniqueValues[i1])
        IN [k \in DOMAIN values |-> Question(i1 - 1, values[k])]]

\* GetChildPossibleValues that answers the candidates of the whole training set
GetChildPossibleValuesGlobal(aDataSet) == GlobalUniqueValues

\* GetChildPossibleValues: per column, the values of the global questions that
\* are the first match of some row of the data set
GetChildPossibleValues(aDataSet) ==
    [i1 \in 1..Len(AttributeNames) |->
        LET i == i1 - 1
            hit == {FirstMatch(At(GlobalQuestions, i), aDataSet[r]) : r \in DOMAIN aDataSet} \ {-1}
            found == {At(At(GlobalQuestions, i), k).Value : k \in hit}
        IN IF IsFloat(At(aDataSet[1], i))
           THEN LET sorted == SortedSeq({v.num : v \in found})
                IN List([k \in DOMAIN sorted |-> Num(sorted[k])])
           ELSE SetOf(found)]

----------------------------------------------------------------------------
(* LeafNode *)

\* row[len(row) - 1]
LabelOf(aRow) == At(aRow, Len(aRow) - 1)

\* CalculateCounts that sets a label's count to 1 and never increments it
CalculateCountsOnce(aRowData) ==
    [val \in {LabelOf(aRowData[r]) : r \in DOMAIN aRowData} |-> 1]

\* LeafNode.CalculateCounts: label -> number of rows with that label
CalculateCounts(aRowData) ==
    [val \in {LabelOf(aRowData[r]) : r \in DOMAIN aRowData} |->
        Cardinality({r \in DOMAIN aRowData : LabelOf(aRowData[r]) = val})]

LeafNode(aRowData, aDepth) ==
    [kind |-> "leaf", Counts |-> CalculateCounts(aRowData), Depth |-> aDepth]

DecisionNode(aQuestions, aDepth) ==
    [kind |-> "decision", Questions |-> aQuestions, Depth |-> aDepth]

----------------------------------------------------------------------------
(* CanSplit *)

\* the numeric branch of CanSplit for one attribute: one Question whose Value is
\* the attribute's whole global container, and a counter that goes up on a match
\* and down otherwise; true as soon as a row matches after the counter went below
\* zero, or does not match after it went above
RECURSIVE CounterFlips(_, _, _, _)
CounterFlips(question, aDataSet, r, answerAbs) ==
    IF r > Len(aDataSet) THEN FALSE
    ELSE LET matches == Match(question, aDataSet[r])
         IN IF matches /\ answerAbs < 0 THEN TRUE
            ELSE IF ~matches /\ answerAbs > 0 THEN TRUE
            ELSE CounterFlips(question, aDataSet, r + 1,
                              IF matches THEN answerAbs + 1 ELSE answerAbs - 1)

\* the categorical test of CanSplit with ">= 1" in place of "> 1"
AttributeSplitsOnOne(aDataSet, uniqueValues, globalUniqueValues, attribute) ==
    IF IsFloat(At(globalUniqueValues, attribute))
    THEN CounterFlips(Question(attribute, At(globalUniqueValues, attribute)), aDataSet, 1, 0)
    ELSE PyLen(At(uniqueValues, attribute)) >= 1

\* the verdict of CanSplit on one non-label attribute.  globalUniqueValues[attribute]
\* is a list or a set, on which IsFloat is false, so the else branch decides
AttributeSplits(aDataSet, uniqueValues, globalUniqueValues, attribute) ==
    IF IsFloat(At(globalUniqueValues, attribute))
    THEN CounterFlips(Question(attribute, At(globalUniqueValues, attribute)), aDataSet, 1, 0)
    ELSE PyLen(At(uniqueValues, attribute)) > 1

CanSplitNoPurity(aDataSet, uniqueValues, globalUniqueValues) ==
    \E attribute \in 0..(Len(uniqueValues) - 2) :
        AttributeSplits(aDataSet, uniqueValues, globalUniqueValues, attribute)

\* CanSplit: false on a pure label column, else true for the first attribute
\* that splits
CanSplit(aDataSet, uniqueValues, globalUniqueValues) ==
    IF PyLen(At(uniqueValues, Len(uniqueValues) - 1)) = 1 THEN FALSE
    ELSE \E attribute \in 0..(Len(uniqueValues) - 2) :
            AttributeSplits(aDataSet, uniqueValues, globalUniqueValues, attribute)

----------------------------------------------------------------------------
(* Gini scores.  A score is the exact fraction [n |-> numerator, d |-> denominator], *)
(* d > 0, of the double the code computes.  On every training set of the families    *)
(* below the doubles order the attributes as the fractions do.  On larger sets the   *)
(* rounding of 1 - p**2 - q**2 can tell apart two scores that are equal as           *)
(* fractions (a group of 3 with 2 trues against a group of 3 with 1 true).           *)

Frac(n, d) == [n |-> n, d |-> d]
FracAdd(a, b) == Frac(a.n * b.d + b.n * a.d, a.d * b.d)
FracSub(a, b) == Frac(a.n * b.d - b.n * a.d, a.d * b.d)
FracMul(a, b) == Frac(a.n * b.n, a.d * b.d)
FracLess(a, b) == a.n * b.d < b.n * a.d
FracEq(a, b) == a.n * b.d = b.n * a.d

\* Counts: the rows whose cell equals the element, and those of them labelled
\* "Yes" or 1
Counts(aData, aElement, aAttributeIndex) ==
    LET hits == {r \in DOMAIN aData : At(aData[r], aAttributeIndex) = aElement}
        trues == Cardinality({r \in hits : LabelOf(aData[r]) = Str("Yes")
                                           \/ LabelOf(aData[r]) = Num(1)})
    IN [trues |-> trues, falses |-> Cardinality(hits) - trues, count |-> Cardinality(hits)]

RECURSIVE GiniSum(_, _, _, _)
\* the loop of GiniIndex over the elements from position k on
GiniSum(aDataSet, aAttributeIndex, elements, k) ==
    IF k > Len(elements) THEN Frac(0, 1)
    ELSE LET c == Counts(aDataSet, elements[k], aAttributeIndex)
             rest == GiniSum(aDataSet, aAttributeIndex, elements, k + 1)
         IN IF c.count = 0 THEN rest
            ELSE LET individualGini ==
                         FracSub(FracSub(Frac(1, 1),
                                         FracMul(Frac(c.trues, c.count), Frac(c.trues, c.count))),
                                 FracMul(Frac(c.falses, c.count), Frac(c.falses, c.count)))
                     totalPercent == Frac(c.count, Len(aDataSet))
                 IN FracAdd(FracMul(totalPercent, individualGini), rest)

GiniIndex(aDataSet, aAttributeIndex, aPossibleValues) ==
    LET uniqueElements == At(aPossibleValues, aAttributeIndex)
    IN IF PyLen(uniqueElements) = 1 THEN Frac(0, 1)
       ELSE GiniSum(aDataSet, aAttributeIndex, Iter(uniqueElements), 1)

RECURSIVE BestFromHighest(_, _, _, _, _)
\* FindBestSplit with "<=" in place of "<": the last of the best attributes wins
BestFromHighest(aDataSet, uniqueValues, attribute, bestInfo, bestAttribute) ==
    IF attribute > Len(aDataSet[1]) - 2
    THEN [giniIndex |-> bestInfo, attributeIndex |-> bestAttribute]
    ELSE IF PyLen(At(uniqueValues, attribute)) = 1
         THEN BestFromHighest(aDataSet, uniqueValues, attribute + 1, bestInfo, bestAttribute)
         ELSE LET giniIndex == GiniIndex(aDataSet, attribute, uniqueValues)
              IN IF ~FracLess(bestInfo, giniIndex)
                 THEN BestFromHighest(aDataSet, uniqueValues, attribute + 1, giniIndex, attribute)
                 ELSE BestFromHighest(aDataSet, uniqueValues, attribute + 1, bestInfo, bestAttribute)

RECURSIVE BestFrom(_, _, _, _, _)
\* the loop of FindBestSplit from one attribute on
BestFrom(aDataSet, uniqueValues, attribute, bestInfo, bestAttribute) ==
    IF attribute > Len(aDataSet[1]) - 2
    THEN [giniIndex |-> bestInfo, attributeIndex |-> bestAttribute]
    ELSE IF PyLen(At(uniqueValues, attribute)) = 1
         THEN BestFrom(aDataSet, uniqueValues, attribute + 1, bestInfo, bestAttribute)
         ELSE LET giniIndex == GiniIndex(aDataSet, attribute, uniqueValues)
              IN IF FracLess(giniIndex, bestInfo)
                 THEN BestFrom(aDataSet, uniqueValues, attribute + 1, giniIndex, attribute)
                 ELSE BestFrom(aDataSet, uniqueValues, attribute + 1, bestInfo, bestAttribute)

RECURSIVE BestFromNoSkip(_, _, _, _, _)
\* FindBestSplit without "if len(uniqueValues[attribute]) == 1: continue"
BestFromNoSkip(aDataSet, uniqueValues, attribute, bestInfo, bestAttribute) ==
    IF attribute > Len(aDataSet[1]) - 2
    THEN [giniIndex |-> bestInfo, attributeIndex |-> bestAttribute]
    ELSE LET giniIndex == GiniIndex(aDataSet, attribute, uniqueValues)
         IN IF FracLess(giniIndex, bestInfo)
            THEN BestFromNoSkip(aDataSet, uniqueValues, attribute + 1, giniIndex, attribute)
            ELSE BestFromNoSkip(aDataSet, uniqueValues, attribute + 1, bestInfo, bestAttribute)

FindBestSplitNoSkip(aDataSet, uniqueValues) ==
    BestFromNoSkip(aDataSet, uniqueValues, 0, Frac(2, 1), -1)

FindBestSplitLast(aDataSet, uniqueValues) ==
    BestFromHighest(aDataSet, uniqueValues, 0, Frac(2, 1), -1)

\* FindBestSplit: bestInfo starts at 2.0 and bestAttribute at -1
FindBestSplit(aDataSet, uniqueValues) ==
    BestFrom(aDataSet, uniqueValues, 0, Frac(2, 1), -1)

----------------------------------------------------------------------------
(* DecisionNode.Decide and LeafNode.Decide *)

\* DecisionNode.Decide with the last branch as the fallback
BranchOrLast(aQuestions, aData) ==
    LET i == FirstMatch(aQuestions, aData)
    IN IF i # -1 THEN i ELSE Len(aQuestions) - 1

\* DecisionNode.Decide: the index of the branch the row goes down: that of the
\* first question that matches, and Branches[0] when the loop ends without one
Branch(aQuestions, aData) ==
    LET i == FirstMatch(aQuestions, aData)
    IN IF i # -1 THEN i ELSE 0

RECURSIVE DecidePath(_, _, _)
\* the nodes a row visits from the node at aPath down to a leaf
DecidePath(aTree, aPath, aData) ==
    IF aTree[aPath].kind = "leaf" THEN aPath
    ELSE DecidePath(aTree, Append(aPath, Branch(aTree[aPath].Questions, aData)), aData)

\* Root.Decide(aData): the Counts of the leaf the row ends in
Decide(aTree, aData) == aTree[DecidePath(aTree, <<>>, aData)].Counts

----------------------------------------------------------------------------
(* Training sets *)

Colors == {"Green", "Yellow", "Red"}
Sizes == {1, 3}
Labels == {"Yes", "No"}

SeqsUpTo(S, n) == UNION {[1..k -> S] : k \in 1..n}

\* rows of a file with the columns Color, Size, Label
ColorRows == {<<Str(c), Num(s), Str(l)>> : c \in Colors, s \in Sizes, l \in Labels}
\* rows of a file with the columns X, Label
NumValues == {1, 2, 3, 4}
NumRows == {<<Num(v), Str(l)>> : v \in NumValues, l \in Labels}

\* a file with the columns X, Label that lists the values of S from the highest
\* down, a value labelled by its parity, and then one of them again
ManyValues(S, again, l) ==
    LET sorted == SortedSeq(S)
    IN [i \in 1..Len(sorted) |->
           LET v == sorted[Len(sorted) - i + 1]
           IN <<Num(v), Str(IF v % 2 = 1 THEN "Yes" ELSE "No")>>]
       \o << <<Num(again), Str(l)>> >>

ColorNames == <<"Color", "Size", "Label">>
NumNames == <<"X", "Label">>

NoCall == [DataSet |-> None, aDepth |-> 0, path |-> <<>>, childUniqueValues |-> <<>>,
           canSplit |-> FALSE, giniIndex |-> Frac(2, 1), attributeIndex |-> -1,
           questions |-> <<>>, splitSets |-> <<>>]
NoDecision == [row |-> <<>>, path |-> <<>>, counts |-> <<>>]
Unset == Frac(0, 1)

\* the state after LoadTrainingData, before CreateTree
Loaded(data, names) ==
    /\ TrainingData = data
    /\ AttributeNames = names
    /\ GlobalUniqueValues = <<>>
    /\ GlobalQuestions = <<>>
    /\ Root = <<>>
    /\ Depth = 0
    /\ stack = <<>>
    /\ call = NoCall
    /\ decided = NoDecision
    /\ pc = "loaded"
    /\ total = 0 /\ TP = 0 /\ TN = 0 /\ FP = 0 /\ FN = 0 /\ P = 0 /\ N = 0
    /\ testData = <<>> /\ row = <<>> /\ counts = <<>>
    /\ accuracy = Unset /\ precision = Unset /\ recall = Unset

Init ==
    \/ \E data \in SeqsUpTo(ColorRows, MaxRows) : Loaded(data, ColorNames)
    \/ \E data \in SeqsUpTo(NumRows, MaxNumRows) : Loaded(data, NumNames)

----------------------------------------------------------------------------
(* CreateTree *)

Frame(aDataSet, aDepth, path) == [DataSet |-> aDataSet, aDepth |-> aDepth, path |-> path]

\* CreateTree up to its call of CreateTreeRecursive(self.TrainingData, 0)
CreateTree ==
    /\ pc = "loaded"
    /\ GlobalUniqueValues' = GetPossibleValues(TrainingData)
    /\ GlobalQuestions' = GetQuestions(GlobalUniqueValues')
    /\ stack' = <<Frame(List(TrainingData), 0, <<>>)>>
    /\ pc' = "building"
    /\ UNCHANGED <<TrainingData, AttributeNames, Root, Depth, call, decided>>
    /\ UNCHANGED evalVars

\* the questions of a split, one per local candidate of the attribute, in the
\* order the container is visited
SplitQuestions(order, attributeIndex) ==
    [i \in DOMAIN order |-> Question(attributeIndex, order[i])]

\* the rows of a data set whose first matching question is question i
RowsOf(aDataSet, questions, i) ==
    SelectSeq(aDataSet, LAMBDA r : FirstMatch(questions, r) = i)

\* splitSets: per question None, or the list of the rows it is the first match of
SplitSets(aDataSet, questions) ==
    [i1 \in DOMAIN questions |->
        IF RowsOf(aDataSet, questions, i1 - 1) = <<>> THEN None
        ELSE List(RowsOf(aDataSet, questions, i1 - 1))]

\* one call of CreateTreeRecursive, the innermost pending one: it returns a
\* LeafNode, or it splits and its recursive calls become pending, first branch
\* first.  The DecisionNode is entered in Root when the split is made.  A local
\* of the call is bound by \E over the one value it takes
CreateTreeRecursive ==
    /\ pc = "building"
    /\ stack # <<>>
    /\ LET f == Head(stack)
       IN IF f.DataSet = None
          THEN \* "for row in aDataSet" on None raises TypeError
               /\ pc' = "TypeError"
               /\ call' = [NoCall EXCEPT !.aDepth = f.aDepth, !.path = f.path]
               /\ UNCHANGED <<Root, Depth, stack>>
          ELSE \E childUniqueValues \in {GetChildPossibleValues(f.DataSet.list)} :
               IF ~CanSplit(f.DataSet.list, childUniqueValues, GlobalUniqueValues)
               THEN /\ Root' = (f.path :> LeafNode(f.DataSet.list, f.aDepth)) @@ Root
                    /\ stack' = Tail(stack)
                    /\ pc' = IF Tail(stack) = <<>> THEN "built" ELSE "building"
                    /\ call' = [NoCall EXCEPT !.DataSet = f.DataSet, !.aDepth = f.aDepth,
                                              !.path = f.path,
                                              !.childUniqueValues = childUniqueValues]
                    /\ UNCHANGED Depth
               ELSE \E best \in {FindBestSplit(f.DataSet.list, childUniqueValues)} :
                    \E order \in IterOrders(At(childUniqueValues, best.attributeIndex)) :
                    \E questions \in {SplitQuestions(order, best.attributeIndex)} :
                    \E splitSets \in {SplitSets(f.DataSet.list, questions)} :
                       /\ Depth' = IF f.aDepth > Depth THEN f.aDepth ELSE Depth
                       /\ Root' = (f.path :> DecisionNode(questions, f.aDepth)) @@ Root
                       /\ stack' = [i \in DOMAIN splitSets |->
                                       Frame(splitSets[i], f.aDepth + 1, Append(f.path, i - 1))]
                                   \o Tail(stack)
                       /\ pc' = "building"
                       /\ call' = [DataSet |-> f.DataSet, aDepth |-> f.aDepth,
                                   path |-> f.path,
                                   childUniqueValues |-> childUniqueValues,
                                   canSplit |-> TRUE,
                                   giniIndex |-> best.giniIndex,
                                   attributeIndex |-> best.attributeIndex,
                                   questions |-> questions,
                                   splitSets |-> splitSets]
    /\ UNCHANGED <<TrainingData, AttributeNames, GlobalUniqueValues, GlobalQuestions, decided>>
    /\ UNCHANGED evalVars

Next == CreateTree \/ CreateTreeRecursive

Spec == Init /\ [][Next]_vars

\* the build of a training set with one numeric column of up to MaxValue values
InitCandidates ==
    \E S \in SUBSET (1..MaxValue) \ {{}} : \E again \in S : \E l \in Labels :
        Loaded(ManyValues(S, again, l), NumNames)

SpecCandidates == InitCandidates /\ [][Next]_vars

----------------------------------------------------------------------------
(* Root.Decide on a row *)

\* unlabelled rows for the tree of a Color, Size, Label training set: the trained
\* values of each column, a number above every trained number, one below, and a
\* colour that was not trained
TestColors == Colors \cup {"Blue"}
TestSizes == Sizes \cup {0, 4}
TestRows == {<<Str(c), Num(s)>> : c \in TestColors, s \in TestSizes}

\* self.Root.Decide(row) on the built tree.  Decide changes nothing of the tree,
\* so one call per run shows every call
RootDecide ==
    /\ pc = "built"
    /\ decided = NoDecision
    /\ \E aData \in TestRows :
         decided' = [row |-> aData, path |-> DecidePath(Root, <<>>, aData),
                     counts |-> Decide(Root, aData)]
    /\ UNCHANGED <<pc>>
    /\ UNCHANGED buildVars
    /\ UNCHANGED evalVars

InitDecide == \E data \in SeqsUpTo(ColorRows, MaxRows) : Loaded(data, ColorNames)

NextDecide == CreateTree \/ CreateTreeRecursive \/ RootDecide

SpecDecide == InitDecide /\ [][NextDecide]_vars

----------------------------------------------------------------------------
(* DecisionTree.Decide: the evaluation of a test file *)

\* training sets for the evaluated trees: at most two rows over one numeric
\* column, labelled "Yes"/"No" or 1/0, and five rows that are all "Yes"
EvalValues == {1, 2}
YesNoRows == {<<Num(v), Str(l)>> : v \in EvalValues, l \in Labels}
OneZeroRows == {<<Num(v), Num(l)>> : v \in EvalValues, l \in {1, 0}}
AlwaysYes == [i \in 1..5 |-> <<Num(1), Str("Yes")>>]
EvalTrainingSets ==
    SeqsUpTo(YesNoRows, 2) \cup SeqsUpTo(OneZeroRows, 2) \cup {AlwaysYes}

\* the labelled rows of a test file
Answers == {Str("Yes"), Str("No"), Str("Maybe"), Num(1), Num(0)}
LabelledRows == {<<Num(v), a>> : v \in EvalValues, a \in Answers}

ZeroDivisionError == [error |-> "ZeroDivisionError"]

\* a / b * 100 of Python
Percent(a, b) == IF b = 0 THEN ZeroDivisionError ELSE Frac(a * 100, b)

Minus1 == Frac(-1, 1)

\* accuracy: -1 unless P + N != 0
Accuracy(tp, tn, p, n) == IF p + n # 0 THEN Percent(tp + tn, p + n) ELSE Minus1

\* precision guarded by "P != 0" in place of "TP + FP != 0"
PrecisionIfP(tp, fp, p) == IF p # 0 THEN Percent(tp, tp + fp) ELSE Minus1

\* precision: -1 unless TP + FP != 0
Precision(tp, fp, p) == IF tp + fp # 0 THEN Percent(tp, tp + fp) ELSE Minus1

\* recall: -1 unless P != 0
Recall(tp, p) == IF p # 0 THEN Percent(tp, p) ELSE Minus1

\* the four cells with four separate "if" in place of if/elif
CellsNoElif(guessedTrue, guessedFalse, wasTrue, wasFalse) ==
    [TP |-> IF guessedTrue /\ wasTrue THEN 1 ELSE 0,
     TN |-> IF guessedFalse /\ wasFalse THEN 1 ELSE 0,
     FP |-> IF guessedTrue /\ wasFalse THEN 1 ELSE 0,
     FN |-> IF guessedFalse /\ wasTrue THEN 1 ELSE 0]

\* the if/elif chain over the four cells: what each cell is incremented by
Cells(guessedTrue, guessedFalse, wasTrue, wasFalse) ==
    IF guessedTrue /\ wasTrue THEN [TP |-> 1, TN |-> 0, FP |-> 0, FN |-> 0]
    ELSE IF guessedFalse /\ wasFalse THEN [TP |-> 0, TN |-> 1, FP |-> 0, FN |-> 0]
    ELSE IF guessedTrue /\ wasFalse THEN [TP |-> 0, TN |-> 0, FP |-> 1, FN |-> 0]
    ELSE IF guessedFalse /\ wasTrue THEN [TP |-> 0, TN |-> 0, FP |-> 0, FN |-> 1]
    ELSE [TP |-> 0, TN |-> 0, FP |-> 0, FN |-> 0]

\* one round of "for row in testData": the next row of the file is read and
\* counted
EvalRow ==
    /\ pc \in {"built", "evaluating"}
    /\ total < MaxTest
    /\ \E r \in LabelledRows :
         LET c == Decide(Root, r)
             answer == LabelOf(r)
             guessedTrue == Str("Yes") \in DOMAIN c \/ Num(1) \in DOMAIN c
             guessedFalse == Str("No") \in DOMAIN c \/ Num(0) \in DOMAIN c
             wasTrue == answer = Str("Yes") \/ answer = Num(1)
             wasFalse == answer = Str("No") \/ answer = Num(0)
             cells == Cells(guessedTrue, guessedFalse, wasTrue, wasFalse)
         IN /\ testData' = Append(testData, r)
            /\ row' = r
            /\ counts' = c
            /\ total' = total + 1
            /\ P' = IF wasTrue THEN P + 1 ELSE P
            /\ N' = IF wasTrue THEN N ELSE N + 1
            /\ TP' = TP + cells.TP
            /\ TN' = TN + cells.TN
            /\ FP' = FP + cells.FP
            /\ FN' = FN + cells.FN
    /\ pc' = "evaluating"
    /\ UNCHANGED <<accuracy, precision, recall, decided>>
    /\ UNCHANGED buildVars

\* the end of the file: the three metrics
EvalFinish ==
    /\ pc \in {"built", "evaluating"}
    /\ accuracy' = Accuracy(TP, TN, P, N)
    /\ precision' = Precision(TP, FP, P)
    /\ recall' = Recall(TP, P)
    /\ pc' = IF ZeroDivisionError \in {accuracy', precision', recall'}
             THEN "ZeroDivisionError" ELSE "evaluated"
    /\ UNCHANGED <<total, TP, TN, FP, FN, P, N, testData, row, counts, decided>>
    /\ UNCHANGED buildVars

InitEval == \E data \in EvalTrainingSets : Loaded(data, NumNames)

NextEval == CreateTree \/ CreateTreeRecursive \/ EvalRow \/ EvalFinish

SpecEval == InitEval /\ [][NextEval]_vars

----------------------------------------------------------------------------
(* Properties of the built tree *)

Leaves(aTree) == {p \in DOMAIN aTree : aTree[p].kind = "leaf"}
DecisionNodes(aTree) == {p \in DOMAIN aTree : aTree[p].kind = "decision"}

RECURSIVE SumOver(_, _)
\* the sum of f over the set S of its arguments
SumOver(f, S) == IF S = {} THEN 0
                 ELSE LET x == CHOOSE y \in S : TRUE IN f[x] + SumOver(f, S \ {x})

\* the number of rows a leaf counts
LeafTotal(aTree, p) == SumOver(aTree[p].Counts, DOMAIN aTree[p].Counts)

TotalLeafCounts(aTree) ==
    SumOver([p \in Leaves(aTree) |-> LeafTotal(aTree, p)], Leaves(aTree))

Scenario == << <<Str("Green"), Num(3), Str("Yes")>>,
               <<Str("Yellow"), Num(3), Str("Yes")>>,
               <<Str("Red"), Num(1), Str("No")>> >>

ScenarioBuilt == pc = "built" /\ TrainingData = Scenario /\ AttributeNames = ColorNames

\* C1 as stated: the tree built from the scenario classifies ["Green", 3.0] to
\* {"Yes": 2} and ["Red", 1.0] to {"No": 1}
C1_AsStated ==
    ScenarioBuilt =>
        /\ Decide(Root, <<Str("Green"), Num(3)>>) = (Str("Yes") :> 2)
        /\ Decide(Root, <<Str("Red"), Num(1)>>) = (Str("No") :> 1)

\* C1 amended: the tree built from the scenario splits on Color (both attributes
\* score 0.0 and the lower index wins), so it classifies ["Green", 3.0] to
\* {"Yes": 1} and ["Red", 1.0] to {"No": 1}
C1_Scenario ==
    ScenarioBuilt =>
        /\ Decide(Root, <<Str("Green"), Num(3)>>) = (Str("Yes") :> 1)
        /\ Decide(Root, <<Str("Red"), Num(1)>>) = (Str("No") :> 1)

C1_Witness == ScenarioBuilt /\ Root[<<>>].kind = "decision"

\* C2: once the tree is built, the leaf counts add up to the number of training
\* rows, every leaf counts, label by label, exactly the training rows that
\* Root.Decide routes to it, and Root.Decide of a training row returns a mapping
\* that holds the row's own label with a count of at least 1
C2_PartitionComplete ==
    pc = "built" =>
        /\ TotalLeafCounts(Root) = Len(TrainingData)
        /\ \A p \in Leaves(Root) : \A l \in DOMAIN Root[p].Counts :
             Root[p].Counts[l] =
                Cardinality({r \in DOMAIN TrainingData :
                                /\ DecidePath(Root, <<>>, TrainingData[r]) = p
                                /\ LabelOf(TrainingData[r]) = l})
        /\ \A r \in DOMAIN TrainingData :
             LET c == Decide(Root, TrainingData[r])
             IN /\ LabelOf(TrainingData[r]) \in DOMAIN c
                /\ c[LabelOf(TrainingData[r])] >= 1

\* a built tree two splits deep whose first split is on thresholds
C2_Witness ==
    /\ pc = "built"
    /\ \E p \in Leaves(Root) : Len(p) = 2
    /\ \E p \in DecisionNodes(Root) : IsFloat(Root[p].Questions[1].Value)

\* the data set of the last CreateTreeRecursive call
CallRows == call.DataSet.list

CallIsPure == /\ call.DataSet # None
              /\ \A r \in DOMAIN CallRows : LabelOf(CallRows[r]) = LabelOf(CallRows[1])

\* C3: a CreateTreeRecursive call on a data set whose rows all have one label
\* returns a LeafNode whose Counts has that label as its only key, with the
\* number of rows as its value
C3_PurityLeaf ==
    CallIsPure =>
        /\ Root[call.path].kind = "leaf"
        /\ Root[call.path].Counts = (LabelOf(CallRows[1]) :> Len(CallRows))

\* a pure data set of several rows that differ in every attribute
C3_Witness ==
    /\ CallIsPure
    /\ AttributeNames = ColorNames
    /\ \E r1, r2 \in DOMAIN CallRows :
         /\ At(CallRows[r1], 0) # At(CallRows[r2], 0)
         /\ At(CallRows[r1], 1) # At(CallRows[r2], 1)

\* C4: at every DecisionNode a decided row passes, it goes down the branch of
\* the first question that matches it, and down branch 0 when no question
\* matches; the route ends in a leaf whose Counts are the answer
C4_FirstMatchElseFirst ==
    decided # NoDecision =>
        /\ decided.path \in Leaves(Root)
        /\ decided.counts = Root[decided.path].Counts
        /\ \A k \in 1..Len(decided.path) :
             LET node == Root[SubSeq(decided.path, 1, k - 1)]
                 i == decided.path[k]
                 matching == {j \in 0..(Len(node.Questions) - 1) :
                                 Match(At(node.Questions, j), decided.row)}
             IN /\ node.kind = "decision"
                /\ matching # {} => i \in matching /\ \A j \in matching : i <= j
                /\ matching = {} => i = 0

\* a row no question of the root matches, at a root with several branches
C4_Witness ==
    /\ decided # NoDecision
    /\ Root[<<>>].kind = "decision"
    /\ Len(Root[<<>>].Questions) >= 2
    /\ \A j \in DOMAIN Root[<<>>].Questions : ~Match(Root[<<>>].Questions[j], decided.row)

----------------------------------------------------------------------------
(* Properties of the evaluation *)

GuessedTrue(c) == Str("Yes") \in DOMAIN c \/ Num(1) \in DOMAIN c
GuessedFalse(c) == Str("No") \in DOMAIN c \/ Num(0) \in DOMAIN c
WasTrue(r) == LabelOf(r) = Str("Yes") \/ LabelOf(r) = Num(1)
WasFalse(r) == LabelOf(r) = Str("No") \/ LabelOf(r) = Num(0)

\* a step that evaluates one more row
RowCounted == total' = total + 1

\* the evaluated row increments at most one cell, the first in the order TP, TN,
\* FP, FN whose condition holds
FirstConditionCounted ==
    LET gT == GuessedTrue(counts')
        gF == GuessedFalse(counts')
        wT == WasTrue(row')
        wF == WasFalse(row')
    IN /\ {TP' - TP, TN' - TN, FP' - FP, FN' - FN} \subseteq {0, 1}
       /\ (TP' - TP) + (TN' - TN) + (FP' - FP) + (FN' - FN) <= 1
       /\ TP' - TP = 1 <=> (gT /\ wT)
       /\ TN' - TN = 1 <=> (~(gT /\ wT) /\ gF /\ wF)
       /\ FP' - FP = 1 <=> (~(gT /\ wT) /\ ~(gF /\ wF) /\ gT /\ wF)
       /\ FN' - FN = 1 <=> (~(gT /\ wT) /\ ~(gF /\ wF) /\ ~(gT /\ wF) /\ gF /\ wT)

AmbiguousLeaf == GuessedTrue(counts') /\ GuessedFalse(counts')

\* the evaluated row is counted as TP or TN and not as FP or FN
CountedRight == /\ (TP' - TP) + (TN' - TN) = 1
                /\ FP' = FP
                /\ FN' = FN

NoCellCounted == TP' = TP /\ TN' = TN /\ FP' = FP /\ FN' = FN

\* the true labels of the rows evaluated so far
TrueLabels == [i \in DOMAIN testData |-> LabelOf(testData[i])]

\* the cells never hold more than the rows evaluated, and the tree that always
\* answers {"Yes": 5}, evaluated on the true labels Yes, Yes, No, gives P = 2,
\* N = 1, TP = 2, FN = 0, FP = 1, TN = 0
CellsBounded ==
    /\ TP + TN + FP + FN <= total
    /\ (/\ TrainingData = AlwaysYes
        /\ pc \in {"evaluating", "evaluated"}
        /\ TrueLabels = <<Str("Yes"), Str("Yes"), Str("No")>>)
       => /\ \A i \in DOMAIN testData : Decide(Root, testData[i]) = (Str("Yes") :> 5)
          /\ P = 2 /\ N = 1 /\ TP = 2 /\ FN = 0 /\ FP = 1 /\ TN = 0

\* C5 as stated: each evaluated row increments at most one cell, the first whose
\* condition holds in the order TP, TN, FP, FN; TP+TN+FP+FN <= total; a row that
\* reaches a leaf with a positive and a negative key is counted as TP or TN and
\* never as FP or FN; the {"Yes": 5} scenario gives P=2, N=1, TP=2, FN=0, FP=1, TN=0
C5_AsStated ==
    /\ []CellsBounded
    /\ [][RowCounted => FirstConditionCounted /\ (AmbiguousLeaf => CountedRight)]_vars

\* C5 amended: as stated, but a row that reaches a leaf with a positive and a
\* negative key is counted as TP or TN (never FP or FN) when its true label is
\* positive ("Yes", 1) or negative ("No", 0), and increments no cell otherwise
C5_CellsByPriority ==
    /\ []CellsBounded
    /\ [][RowCounted =>
            /\ FirstConditionCounted
            /\ (AmbiguousLeaf /\ (WasTrue(row') \/ WasFalse(row'))) => CountedRight
            /\ (AmbiguousLeaf /\ ~WasTrue(row') /\ ~WasFalse(row')) => NoCellCounted]_vars

\* a positive row was evaluated at a leaf that holds "Yes" and "No"
C5_Witness ==
    /\ pc = "evaluating"
    /\ GuessedTrue(counts) /\ GuessedFalse(counts)
    /\ WasTrue(row)
    /\ TP >= 1

\* C6: the evaluation never divides by zero, and at its end accuracy is -1
\* exactly when P+N = 0 and (TP+TN)/(P+N)*100 otherwise, precision is -1 exactly
\* when TP+FP = 0 and TP/(TP+FP)*100 otherwise, recall is -1 exactly when P = 0
\* and TP/P*100 otherwise
C6_MetricSentinels ==
    /\ pc # "ZeroDivisionError"
    /\ pc = "evaluated" =>
        /\ accuracy = Minus1 <=> P + N = 0
        /\ P + N # 0 => accuracy = Frac((TP + TN) * 100, P + N)
        /\ precision = Minus1 <=> TP + FP = 0
        /\ TP + FP # 0 => precision = Frac(TP * 100, TP + FP)
        /\ recall = Minus1 <=> P = 0
        /\ P # 0 => recall = Frac(TP * 100, P)

\* rows of one class only, none of them guessed positive: accuracy is a
\* percentage, precision and recall are -1
C6_Witness ==
    /\ pc = "evaluated"
    /\ total >= 2 /\ P = 0 /\ TP + FP = 0
    /\ precision = Minus1 /\ recall = Minus1 /\ accuracy # Minus1

----------------------------------------------------------------------------
(* Properties of the recursion *)

\* the non-label attributes
Attributes == 0..(Len(AttributeNames) - 2)

\* the attribute a DecisionNode splits on
SplitAttribute(aTree, p) == aTree[p].Questions[1].Attribute

IsProperPrefix(p, q) == Len(p) < Len(q) /\ SubSeq(q, 1, Len(p)) = p

RECURSIVE PendingWork(_)
\* a measure of the pending calls: 2 * rows - 1 for every pending data set
PendingWork(aStack) ==
    IF aStack = <<>> THEN 0
    ELSE (IF Head(aStack).DataSet = None THEN 0
          ELSE 2 * Len(Head(aStack).DataSet.list) - 1)
         + PendingWork(Tail(aStack))

\* CreateTreeRecursive can act whenever a call is pending, so the build goes on
\* as long as pc = "building" and a call is pending
BuildInvariant ==
    /\ pc \in {"loaded", "building", "built"}
    /\ pc = "building" => stack # <<>>
    /\ call.canSplit =>
         \A i \in DOMAIN call.splitSets :
            /\ call.splitSets[i] # None
            /\ Len(call.splitSets[i].list) < Len(CallRows)
    /\ \A p, q \in DecisionNodes(Root) :
         IsProperPrefix(p, q) => SplitAttribute(Root, p) # SplitAttribute(Root, q)
    /\ \A p \in DOMAIN Root : Len(p) <= Len(AttributeNames) - 1
    /\ \A k \in DOMAIN stack : stack[k].aDepth <= Len(AttributeNames) - 1

\* C7: CreateTree ends (no call fails, a call is pending until the tree is
\* built, and every call lowers the measure of the pending work), every
\* subset passed to a recursive call is smaller than its parent's, the
\* attributes split on along a path are pairwise distinct, and no node lies
\* deeper than the number of non-label attributes
C7_TerminatesWithinDepth ==
    /\ []BuildInvariant
    /\ [][pc = "building" => PendingWork(stack') < PendingWork(stack)]_vars

\* a built tree with a leaf as deep as there are non-label attributes
C7_Witness ==
    /\ pc = "built"
    /\ AttributeNames = ColorNames
    /\ \E p \in Leaves(Root) : Len(p) = Len(AttributeNames) - 1

\* C8: in every call that splits, every row matches a question of the split,
\* every question is the first match of some row, so every entry of splitSets is
\* a non-empty list; no pending call has an empty or missing data set and no
\* call fails on one
C8_NoEmptyGroup ==
    /\ pc # "TypeError"
    /\ \A k \in DOMAIN stack : stack[k].DataSet # None /\ stack[k].DataSet.list # <<>>
    /\ call.canSplit =>
         /\ \A r \in DOMAIN CallRows : FirstMatch(call.questions, CallRows[r]) # -1
         /\ \A i \in 0..(Len(call.questions) - 1) :
              \E r \in DOMAIN CallRows : FirstMatch(call.questions, CallRows[r]) = i
         /\ \A i \in DOMAIN call.splitSets :
              call.splitSets[i] # None /\ call.splitSets[i].list # <<>>

\* a split below the root
C8_Witness ==
    /\ call.canSplit
    /\ call.path # <<>>
    /\ Len(call.questions) >= 2

\* two rows of the data set disagree on a global threshold question of the attribute
ThresholdDisagreement(aDataSet, attribute) ==
    \E k \in DOMAIN At(GlobalQuestions, attribute) : \E r1, r2 \in DOMAIN aDataSet :
        Match(At(GlobalQuestions, attribute)[k], aDataSet[r1])
            # Match(At(GlobalQuestions, attribute)[k], aDataSet[r2])

\* C9: CanSplit is false when the label column has exactly one local candidate;
\* otherwise it is true exactly when some non-label attribute is non-uniform:
\* a numeric one when two rows disagree on one of its global threshold
\* questions, a categorical one when it has more than one local candidate
C9_CanSplit ==
    call.DataSet # None =>
        call.canSplit =
            IF PyLen(At(call.childUniqueValues, Len(AttributeNames) - 1)) = 1 THEN FALSE
            ELSE \E a \in Attributes :
                    IF IsFloat(At(CallRows[1], a))
                    THEN ThresholdDisagreement(CallRows, a)
                    ELSE PyLen(At(call.childUniqueValues, a)) > 1

\* a call on a mixed-label data set that still cannot be split, and one that
\* is split because of a numeric attribute alone
C9_WitnessNoSplit ==
    /\ call.DataSet # None
    /\ ~call.canSplit
    /\ PyLen(At(call.childUniqueValues, Len(AttributeNames) - 1)) > 1

C9_Witness ==
    /\ call.canSplit
    /\ AttributeNames = ColorNames
    /\ PyLen(At(call.childUniqueValues, 0)) = 1
    /\ ThresholdDisagreement(CallRows, 1)

\* the attributes FindBestSplit chooses among
Splittable == {a \in Attributes : PyLen(At(call.childUniqueValues, a)) > 1}

CallGini(a) == GiniIndex(CallRows, a, call.childUniqueValues)

\* C10: whenever CanSplit is true, FindBestSplit returns a non-label attribute
\* with more than one local candidate, whose Gini score is the least among such
\* attributes, and which has the lowest index among those of that score
C10_BestSplit ==
    call.canSplit =>
        /\ call.attributeIndex \in Splittable
        /\ call.giniIndex = CallGini(call.attributeIndex)
        /\ \A a \in Splittable :
             /\ ~FracLess(CallGini(a), call.giniIndex)
             /\ FracEq(CallGini(a), call.giniIndex) => call.attributeIndex <= a

\* two attributes tie on the least score
C10_Witness ==
    /\ call.canSplit
    /\ \E a \in Splittable : a # call.attributeIndex /\ FracEq(CallGini(a), call.giniIndex)

\* the higher attribute alone has the least score
C10_WitnessSecond ==
    /\ call.canSplit
    /\ call.attributeIndex = 1
    /\ 0 \in Splittable

----------------------------------------------------------------------------
(* C11 *)

\* the columns GetPossibleValues makes a list for
NumericColumns == {j \in 0..(Len(AttributeNames) - 1) : IsFloat(At(TrainingData[1], j))}

\* the distinct numbers of column j of the training set
Distinct(j) == {v.num : v \in Column(TrainingData, j)}

\* the 0-indexed position of x in the sorted list of the distinct numbers
Position(j, x) == Cardinality({y \in Distinct(j) : y < x})

\* the global candidates of column j, as numbers
Candidates(j) == [i \in DOMAIN At(GlobalUniqueValues, j).list |->
                     At(GlobalUniqueValues, j).list[i].num]

\* C11: for a numeric column with n distinct values GetPossibleValues returns
\* the sorted distinct list unchanged when n < 3, and when n >= 3 the three
\* values at the 0-indexed positions floor(n/3)-1, floor(2n/3)-1 and n-1 of
\* that list, in ascending order; the last candidate is the column maximum, so
\* every value of the column is <= at least one candidate
C11_NumericCandidates ==
    pc # "loaded" =>
        \A j \in NumericColumns :
            LET n == Cardinality(Distinct(j))
                c == Candidates(j)
            IN /\ \A i \in DOMAIN c : c[i] \in Distinct(j)
               /\ n < 3 => /\ Len(c) = n
                           /\ \A i \in DOMAIN c : Position(j, c[i]) = i - 1
               /\ n >= 3 => /\ Len(c) = 3
                            /\ Position(j, c[1]) = n \div 3 - 1
                            /\ Position(j, c[2]) = (2 * n) \div 3 - 1
                            /\ Position(j, c[3]) = n - 1
               /\ \A i, k \in DOMAIN c : i < k => c[i] < c[k]
               /\ \A x \in Distinct(j) : x <= c[Len(c)]
               /\ \A r \in DOMAIN TrainingData :
                      \E i \in DOMAIN c : At(TrainingData[r], j).num <= c[i]

\* a column bucketed with 2n/3 not whole, listed unsorted with a value repeated,
\* whose candidates are not three consecutive values
C11_Witness ==
    /\ pc # "loaded"
    /\ 0 \in NumericColumns
    /\ Cardinality(Distinct(0)) = 7
    /\ Len(TrainingData) > Cardinality(Distinct(0))
    /\ Candidates(0) = <<2, 4, 7>>

\* a column of two values left as its sorted list
C11_WitnessUnchanged ==
    /\ pc # "loaded"
    /\ 0 \in NumericColumns
    /\ Candidates(0) = <<3, 5>>
    /\ At(TrainingData[1], 0) = Num(5)

====
